---- MODULE Spec2Model ----
(***************************************************************************)
(* The chat widget (ChatWindow) of the Social-dapp front end: the message  *)
(* list, the input field, the isProcessing flag, the request issued by     *)
(* sendMessage and the timer of the typing effect.                         *)
(*                                                                         *)
(* Strings are sequences of one-character strings.  React 18 semantics are *)
(* assumed (the component is a Next.js app-router client component): the   *)
(* state setters called in one synchronous run of a handler are batched    *)
(* into one commit, and the effect that depends on [messages] runs with    *)
(* that commit, its cleanup first.                                         *)
(***************************************************************************)
EXTENDS Integers, Sequences, FiniteSets, TLC

VARIABLES
    mounted,        \* the component is mounted
    influencerName, \* prop: the persona of this widget
    messages,       \* useState<ChatMessage[]>
    input,          \* useState("")
    isProcessing,   \* useState(false)
    pending,        \* requests issued by fetch and not settled yet
    timers,         \* pending setTimeout callbacks of the typing effect
    now,            \* last value read from Date.now()
    event,          \* the handler that ran last, with the values it saw
    landing,        \* the landing page (Home): wallet signal, location, pushes
    format          \* a text under reveal and the segments rendered for it

chatVars == <<mounted, influencerName, messages, input, isProcessing, pending,
              timers, now, event>>

vars == <<chatVars, landing, format>>

-----------------------------------------------------------------------------
(* Bounds *)

MaxInputLen == 2
MaxReplyLen == 2
MaxMsgs == 4
MaxClock == 1
MaxPushes == 3
MaxTextLen == 5

-----------------------------------------------------------------------------
(* Strings *)

Space == " "

Pad(n) == [i \in 1..n |-> Space]

\* what the user types: nothing or one visible character
Cores == {<<>>, <<"a">>}

\* the values of the textarea: a core with whitespace around it
Inputs ==
    {s \in {Pad(l) \o core \o Pad(r) :
                l \in 0..MaxInputLen, r \in 0..MaxInputLen, core \in Cores} :
        Len(s) <= MaxInputLen}

ReplyText == <<"h", "i", " ", "t", "h", "e", "r", "e">>

Min(a, b) == IF a < b THEN a ELSE b

\* String.prototype.slice(0, n) for n >= 0
Slice(s, n) == SubSeq(s, 1, Min(n, Len(s)))

\* the response field of a reply: the empty string or a text to reveal
Responses == {Slice(ReplyText, n) : n \in {0, MaxReplyLen}}

RECURSIVE TrimStart(_)
TrimStart(s) ==
    IF s # <<>> /\ Head(s) = Space THEN TrimStart(Tail(s)) ELSE s

RECURSIVE TrimEnd(_)
TrimEnd(s) ==
    IF s # <<>> /\ s[Len(s)] = Space THEN TrimEnd(SubSeq(s, 1, Len(s) - 1))
    ELSE s

\* String.prototype.trim
Trim(s) == TrimEnd(TrimStart(s))

Digit(d) ==
    CASE d = 0 -> "0" [] d = 1 -> "1" [] d = 2 -> "2" [] d = 3 -> "3"
      [] d = 4 -> "4" [] d = 5 -> "5" [] d = 6 -> "6" [] d = 7 -> "7"
      [] d = 8 -> "8" [] d = 9 -> "9"

\* Number.prototype.toString of a non-negative integer
RECURSIVE NumToString(_)
NumToString(n) ==
    IF n < 10 THEN <<Digit(n)>>
    ELSE NumToString(n \div 10) \o <<Digit(n % 10)>>

IsPrefix(p, s) == Len(p) <= Len(s) /\ SubSeq(s, 1, Len(p)) = p

ErrorText ==
    <<"F","a","i","l","e","d"," ","t","o"," ","g","e","n","e","r","a","t","e",
      " ","r","e","s","p","o","n","s","e","."," ","P","l","e","a","s","e"," ",
      "t","r","y"," ","a","g","a","i","n",".">>

-----------------------------------------------------------------------------
(* Personas *)

ImagePersona == "artifex"

Personas == {ImagePersona, "sage"}

FailureCauses == {"network", "status", "body"}

-----------------------------------------------------------------------------
(* Messages built by sendMessage.  An absent optional flag is FALSE. *)

UserMessage(inp, t) ==
    [sender |-> "user", text |-> inp, displayText |-> inp,
     timestamp |-> NumToString(t), isImage |-> FALSE, isLoading |-> FALSE]

LoadingMessage ==
    [sender |-> "ai", text |-> <<>>, displayText |-> <<>>,
     timestamp |-> <<>>, isImage |-> FALSE, isLoading |-> TRUE]

AiMessageRevealed(persona, response, t) ==
    [sender |-> "ai", text |-> response, displayText |-> response,
     timestamp |-> NumToString(t), isImage |-> (persona = ImagePersona),
     isLoading |-> FALSE]

AiMessage(persona, response, t) ==
    [sender |-> "ai", text |-> response, displayText |-> <<>>,
     timestamp |-> NumToString(t), isImage |-> (persona = ImagePersona),
     isLoading |-> FALSE]

ErrorMessage(t) ==
    [sender |-> "ai", text |-> ErrorText, displayText |-> ErrorText,
     timestamp |-> NumToString(t), isImage |-> FALSE, isLoading |-> FALSE]

-----------------------------------------------------------------------------
(* The guard and the list updates of sendMessage *)

CanSendAlways(inp, proc) == TRUE

CanSendBlank(inp, proc) == ~proc

\* the negation of  !input.trim() || isProcessing
CanSend(inp, proc) == Trim(inp) # <<>> /\ ~proc

FetchRequestTrimmed(name, inp) == [persona |-> name, message |-> Trim(inp)]

\* fetch(`/api/ai/${influencerName}`, {body: JSON.stringify({message: input})})
FetchRequest(name, inp) == [persona |-> name, message |-> inp]

ProcessingNotSet == FALSE

\* setIsProcessing(true)
ProcessingAfterSend == TRUE

AppendPairSwapped(prev, userMessage, loadingMessage) ==
    prev \o <<loadingMessage, userMessage>>

\* prev => [...prev, userMessage, loadingMessage]
AppendPair(prev, userMessage, loadingMessage) ==
    prev \o <<userMessage, loadingMessage>>

ReplaceLoadingNone(prev, aiMessage) == prev

\* prev.map(msg => msg.timestamp === loadingMessage.timestamp ? aiMessage : msg)
ReplaceLoading(prev, aiMessage) ==
    [i \in 1..Len(prev) |->
        IF prev[i].timestamp = LoadingMessage.timestamp THEN aiMessage
        ELSE prev[i]]

KeepTimestamped(msg) == msg.timestamp # LoadingMessage.timestamp

RemoveLoadingSkipped(prev) == prev

\* prev.filter(msg => msg.timestamp !== loadingMessage.timestamp)
RemoveLoading(prev) == SelectSeq(prev, KeepTimestamped)

AppendErrorFirst(prev, errorMessage) == <<errorMessage>> \o prev

\* prev => [...prev, errorMessage]
AppendError(prev, errorMessage) == Append(prev, errorMessage)

ProcessingKept(proc) == proc

\* finally { setIsProcessing(false) }
ProcessingAfterSettle(proc) == FALSE

-----------------------------------------------------------------------------
(* The typing effect *)

Last(s) == s[Len(s)]

EffectAppliesToImages(msgs) ==
    /\ msgs # <<>>
    /\ Last(msgs).sender = "ai"
    /\ ~Last(msgs).isLoading
    /\ Len(Last(msgs).displayText) < Len(Last(msgs).text)

\* the condition under which the effect schedules a timer
EffectApplies(msgs) ==
    /\ msgs # <<>>
    /\ Last(msgs).sender = "ai"
    /\ ~Last(msgs).isLoading
    /\ ~Last(msgs).isImage
    /\ Len(Last(msgs).displayText) < Len(Last(msgs).text)

CleanupSkipped(ts) == ts

\* return () => clearTimeout(timer): clears the timer of the previous run
Cleanup(ts) == IF ts = <<>> THEN <<>> ELSE SubSeq(ts, 1, Len(ts) - 1)

TypingEffectNoCleanup(ts, msgs) ==
    ts \o
        (IF EffectApplies(msgs) THEN <<[lastMessage |-> Last(msgs)]>>
         ELSE <<>>)

\* one run of the effect after a commit that changed messages
TypingEffect(ts, msgs) ==
    Cleanup(ts) \o
        (IF EffectApplies(msgs) THEN <<[lastMessage |-> Last(msgs)]>>
         ELSE <<>>)

TimerUpdateFromFirst(prev, lastMessage) ==
    [prev EXCEPT ![Len(prev)].displayText =
        Slice(prev[1].text, Len(prev[Len(prev)].displayText) + 1)]

TimerUpdateByTwo(prev, lastMessage) ==
    [prev EXCEPT ![Len(prev)].displayText =
        Slice(lastMessage.text, Len(prev[Len(prev)].displayText) + 2)]

\* the updater passed to setMessages by the timer callback
TimerUpdate(prev, lastMessage) ==
    [prev EXCEPT ![Len(prev)].displayText =
        Slice(lastMessage.text, Len(prev[Len(prev)].displayText) + 1)]

RemoveAt(s, i) == SubSeq(s, 1, i - 1) \o SubSeq(s, i + 1, Len(s))

-----------------------------------------------------------------------------
(* The landing page (Home), in its two versions *)

LandingPath == "/"

DashboardPath == "/dashboard"

Paths == {LandingPath, DashboardPath, "/profile"}

\* the versions of Home: src/app/page.tsx and the unnamed one
HomeFiles == {"page.tsx", "part_000"}

\* the condition under which the effect calls router.push('/dashboard')
Redirects(file, connected, pathname) ==
    IF file = "part_000" THEN connected /\ pathname = LandingPath
    ELSE connected

\* one run of the effect of Home, whose dependencies are [connected, router]
HomeEffect(l) ==
    IF Redirects(l.file, l.connected, l.pathname)
    THEN [l EXCEPT !.pushes = @ + 1, !.navigating = TRUE]
    ELSE l

HomeStart(file, connected) ==
    [file |-> file, connected |-> connected, pathname |-> LandingPath,
     mounted |-> FALSE, navigating |-> FALSE, pushes |-> 0]

-----------------------------------------------------------------------------
(* formatResponseText *)

Star == "*"

TextChars == {Star, "a"}

Texts == UNION {[1..n -> TextChars] : n \in 0..MaxTextLen}

MinOf(S) == CHOOSE x \in S : \A y \in S : x <= y

\* positions from which the text goes on with the closing ** of a bold span
BoldCloses(s, q) ==
    {e \in (q + 2)..(Len(s) - 1) : s[e] = Star /\ s[e + 1] = Star}

\* positions of a closing * of an italic span
ItalicCloses(s, q) == {e \in (q + 1)..Len(s) : s[e] = Star}

\* the last position of the match of /\*\*.*?\*\*|\*.*?\*/ that starts at
\* position q, or 0 when there is none: the first alternative is tried first
\* and each lazy .*? stops at the first closing delimiter
MatchEnd(s, q) ==
    IF s[q] # Star THEN 0
    ELSE IF q + 1 <= Len(s) /\ s[q + 1] = Star /\ BoldCloses(s, q) # {}
         THEN MinOf(BoldCloses(s, q)) + 1
    ELSE IF ItalicCloses(s, q) # {} THEN MinOf(ItalicCloses(s, q))
    ELSE 0

\* String.prototype.split with the capturing pattern: the pieces between
\* the matches, with each match after the piece before it
RECURSIVE SplitFrom(_, _, _)
SplitFrom(s, p, q) ==
    IF q > Len(s) THEN <<SubSeq(s, p, Len(s))>>
    ELSE IF MatchEnd(s, q) = 0 THEN SplitFrom(s, p, q + 1)
    ELSE <<SubSeq(s, p, q - 1), SubSeq(s, q, MatchEnd(s, q))>>
             \o SplitFrom(s, MatchEnd(s, q) + 1, MatchEnd(s, q) + 1)

Split(s) == SplitFrom(s, 1, 1)

StartsWith(s, p) == Len(p) <= Len(s) /\ SubSeq(s, 1, Len(p)) = p

EndsWith(s, p) ==
    Len(p) <= Len(s) /\ SubSeq(s, Len(s) - Len(p) + 1, Len(s)) = p

\* part.slice(a, -a)
SliceBoth(s, a) == SubSeq(s, a + 1, Len(s) - a)

\* the element rendered for one part of the split
Segment(part) ==
    IF StartsWith(part, <<Star, Star>>) /\ EndsWith(part, <<Star, Star>>)
    THEN [tag |-> "strong", content |-> SliceBoth(part, 2)]
    ELSE IF StartsWith(part, <<Star>>) /\ EndsWith(part, <<Star>>)
    THEN [tag |-> "em", content |-> SliceBoth(part, 1)]
    ELSE [tag |-> "span", content |-> part]

FormatResponseText(text) ==
    [i \in 1..Len(Split(text)) |-> Segment(Split(text)[i])]

FormatStart(text) ==
    [text |-> text, displayText |-> <<>>,
     segments |-> FormatResponseText(<<>>)]

-----------------------------------------------------------------------------
(* State machine *)

Init ==
    /\ mounted = TRUE
    /\ influencerName \in Personas
    /\ messages = <<>>
    /\ input = <<>>
    /\ isProcessing = FALSE
    /\ pending = <<>>
    /\ timers = <<>>
    /\ now = 1
    /\ event = [type |-> "mount"]
    /\ landing = HomeStart("part_000", FALSE)
    /\ format = FormatStart(<<>>)

\* onChange of the textarea, which is disabled while isProcessing
SetInput(value) ==
    /\ UNCHANGED <<landing, format>>
    /\ mounted
    /\ ~isProcessing
    /\ input' = value
    /\ event' = [type |-> "setInput", value |-> value]
    /\ UNCHANGED <<mounted, influencerName, messages, isProcessing, pending,
                   timers, now>>

\* sendMessage up to its await
SendMessage ==
    /\ UNCHANGED <<landing, format>>
    /\ mounted
    /\ event' = [type |-> "sendMessage", input |-> input,
                 isProcessing |-> isProcessing]
    /\ IF CanSend(input, isProcessing)
       THEN /\ Len(messages) + 2 <= MaxMsgs
            /\ \E t \in now..MaxClock :
                 /\ now' = t
                 /\ messages' = AppendPair(messages, UserMessage(input, t),
                                           LoadingMessage)
            /\ isProcessing' = ProcessingAfterSend
            /\ input' = <<>>
            /\ timers' = TypingEffect(timers, messages')
            /\ pending' = Append(pending, FetchRequest(influencerName, input))
            /\ UNCHANGED <<mounted, influencerName>>
       ELSE UNCHANGED <<mounted, influencerName, messages, input,
                        isProcessing, pending, timers, now>>

\* the request k settles with an ok status and a body {response}
Resolve(k, response) ==
    /\ UNCHANGED <<landing, format>>
    /\ k \in 1..Len(pending)
    /\ pending' = RemoveAt(pending, k)
    /\ event' = [type |-> "resolve", request |-> pending[k],
                 response |-> response]
    /\ IF mounted
       THEN \E t \in now..MaxClock :
              /\ now' = t
              /\ messages' = ReplaceLoading(messages,
                                 AiMessage(influencerName, response, t))
              /\ isProcessing' = ProcessingAfterSettle(isProcessing)
              /\ timers' = TypingEffect(timers, messages')
              /\ UNCHANGED <<mounted, influencerName, input>>
       ELSE UNCHANGED <<mounted, influencerName, messages, input,
                        isProcessing, timers, now>>

\* the request k fails: fetch rejects, the status is not ok, or the body
\* does not parse
Reject(k, cause) ==
    /\ UNCHANGED <<landing, format>>
    /\ k \in 1..Len(pending)
    /\ pending' = RemoveAt(pending, k)
    /\ event' = [type |-> "reject", request |-> pending[k], cause |-> cause]
    /\ IF mounted
       THEN \E t \in now..MaxClock :
              /\ now' = t
              /\ messages' = AppendError(RemoveLoading(messages),
                                         ErrorMessage(t))
              /\ isProcessing' = ProcessingAfterSettle(isProcessing)
              /\ timers' = TypingEffect(timers, messages')
              /\ UNCHANGED <<mounted, influencerName, input>>
       ELSE UNCHANGED <<mounted, influencerName, messages, input,
                        isProcessing, timers, now>>

\* the timer i of the typing effect fires
TimerFires(i) ==
    /\ UNCHANGED <<landing, format>>
    /\ mounted
    /\ i \in 1..Len(timers)
    /\ messages # <<>>
    /\ messages' = TimerUpdate(messages, timers[i].lastMessage)
    /\ timers' = TypingEffect(RemoveAt(timers, i), messages')
    /\ event' = [type |-> "timer", lastMessage |-> timers[i].lastMessage]
    /\ UNCHANGED <<mounted, influencerName, input, isProcessing, pending, now>>

\* the widget is closed: the effect's cleanup runs and the state is discarded
Unmount ==
    /\ UNCHANGED <<landing, format>>
    /\ mounted
    /\ mounted' = FALSE
    /\ messages' = <<>>
    /\ input' = <<>>
    /\ isProcessing' = FALSE
    /\ timers' = Cleanup(timers)
    /\ event' = [type |-> "unmount"]
    /\ UNCHANGED <<influencerName, pending, now>>

Next ==
    \/ \E value \in Inputs : SetInput(value)
    \/ SendMessage
    \/ \E k \in 1..Len(pending), response \in Responses : Resolve(k, response)
    \/ \E k \in 1..Len(pending), cause \in FailureCauses : Reject(k, cause)
    \/ \E i \in 1..Len(timers) : TimerFires(i)
    \/ Unmount

Spec == Init /\ [][Next]_vars

\* setTimeout callbacks that stay scheduled do fire
FairSpec == Spec /\ WF_vars(\E i \in 1..Len(timers) : TimerFires(i))

-----------------------------------------------------------------------------
(* Replies with an ok status whose body parses but carries no response *)

\* data.response of a body without the field; not a string
Undefined == <<"undefined">>

\* whether rendering the bubble of msg throws: a textual bubble reads
\* msg.text.length; an image bubble hands msg.text to the image component,
\* which rejects a missing src in some builds only
RenderThrows(msg) ==
    IF msg.text # Undefined THEN {FALSE}
    ELSE IF msg.isImage THEN BOOLEAN
    ELSE {TRUE}

\* the request k settles with an ok status and a body such as {}
ResolveWithoutResponse(k) ==
    /\ UNCHANGED <<landing, format>>
    /\ k \in 1..Len(pending)
    /\ pending' = RemoveAt(pending, k)
    /\ event' = [type |-> "resolve", request |-> pending[k],
                 response |-> Undefined]
    /\ IF mounted
       THEN \E t \in now..MaxClock :
              \E thrown \in RenderThrows(AiMessage(influencerName,
                                                   Undefined, t)) :
                /\ now' = t
                /\ IF thrown
                   THEN \* the render error unmounts the widget
                        /\ mounted' = FALSE
                        /\ messages' = <<>>
                        /\ input' = <<>>
                        /\ isProcessing' = FALSE
                        /\ timers' = Cleanup(timers)
                        /\ UNCHANGED influencerName
                   ELSE /\ messages' = ReplaceLoading(messages,
                                 AiMessage(influencerName, Undefined, t))
                        /\ isProcessing' = ProcessingAfterSettle(isProcessing)
                        /\ timers' = TypingEffect(timers, messages')
                        /\ UNCHANGED <<mounted, influencerName, input>>
       ELSE UNCHANGED <<mounted, influencerName, messages, input,
                        isProcessing, timers, now>>

AnyReplyNext ==
    \/ Next
    \/ \E k \in 1..Len(pending) : ResolveWithoutResponse(k)

AnyReplySpec == Init /\ [][AnyReplyNext]_vars

-----------------------------------------------------------------------------
(* The landing page as a state machine of its own *)

LandingInit ==
    /\ mounted = FALSE
    /\ influencerName = ImagePersona
    /\ messages = <<>>
    /\ input = <<>>
    /\ isProcessing = FALSE
    /\ pending = <<>>
    /\ timers = <<>>
    /\ now = 1
    /\ event = [type |-> "mount"]
    /\ landing \in {HomeStart(file, connected) :
                       file \in HomeFiles, connected \in BOOLEAN}
    /\ format = FormatStart(<<>>)

\* the page of the landing route is rendered: its effect runs
HomeMount ==
    /\ ~landing.mounted
    /\ landing.pathname = LandingPath
    /\ landing' = HomeEffect([landing EXCEPT !.mounted = TRUE])
    /\ landing'.pushes <= MaxPushes
    /\ UNCHANGED <<chatVars, format>>

\* the wallet provider changes its connected signal; a mounted Home renders
\* again and, connected being a dependency, its effect runs
WalletSignal(connected) ==
    /\ connected # landing.connected
    /\ landing' = IF landing.mounted
                  THEN HomeEffect([landing EXCEPT !.connected = connected])
                  ELSE [landing EXCEPT !.connected = connected]
    /\ landing'.pushes <= MaxPushes
    /\ UNCHANGED <<chatVars, format>>

\* window.location.pathname changes for another reason than the push of Home
LocationChange(pathname) ==
    /\ pathname # landing.pathname
    /\ landing' = [landing EXCEPT !.pathname = pathname]
    /\ UNCHANGED <<chatVars, format>>

\* the navigation started by router.push arrives at the dashboard
NavigationCommits ==
    /\ landing.navigating
    /\ landing' = [landing EXCEPT !.pathname = DashboardPath,
                                  !.navigating = FALSE]
    /\ UNCHANGED <<chatVars, format>>

\* another route is shown: Home is unmounted
HomeUnmount ==
    /\ landing.mounted
    /\ landing.pathname # LandingPath
    /\ landing' = [landing EXCEPT !.mounted = FALSE]
    /\ UNCHANGED <<chatVars, format>>

LandingNext ==
    \/ HomeMount
    \/ \E connected \in BOOLEAN : WalletSignal(connected)
    \/ \E pathname \in Paths : LocationChange(pathname)
    \/ NavigationCommits
    \/ HomeUnmount

LandingSpec == LandingInit /\ [][LandingNext]_vars

-----------------------------------------------------------------------------
(* The rendering of a text under reveal *)

FormatInit ==
    /\ mounted = TRUE
    /\ influencerName = "sage"
    /\ messages = <<>>
    /\ input = <<>>
    /\ isProcessing = FALSE
    /\ pending = <<>>
    /\ timers = <<>>
    /\ now = 1
    /\ event = [type |-> "mount"]
    /\ landing = HomeStart("part_000", FALSE)
    /\ format \in {FormatStart(text) : text \in Texts}

\* one more character of the text is revealed and the bubble is rendered:
\* formatResponseText(msg.displayText)
RevealAndRender ==
    /\ Len(format.displayText) < Len(format.text)
    /\ format' =
         [format EXCEPT
            !.displayText = Slice(format.text, Len(format.displayText) + 1),
            !.segments = FormatResponseText(
                 Slice(format.text, Len(format.displayText) + 1))]
    /\ UNCHANGED <<chatVars, landing>>

FormatNext == RevealAndRender

FormatSpec == FormatInit /\ [][FormatNext]_vars

-----------------------------------------------------------------------------
(* Properties of the chat widget *)

LoadingIndexes == {i \in DOMAIN messages : messages[i].isLoading}

NotLoading(msg) == ~msg.isLoading

Settled(e) == e.type \in {"resolve", "reject"}

\* C1: in every reachable state the message list holds at most one message
\* with isLoading = true.
C1_AtMostOneLoading == Cardinality(LoadingIndexes) <= 1

C1_Witness ==
    /\ Len(messages) = 4
    /\ Cardinality(LoadingIndexes) = 1
    /\ ~messages[2].isLoading

\* C2: a send invoked while a request is pending, or with an input that is
\* blank after trimming, changes neither the message list, the input field
\* nor isProcessing, and issues no request.
C2_RejectedSendNoEffect ==
    [][(/\ event'.type = "sendMessage"
        /\ mounted
        /\ (isProcessing \/ Trim(input) = <<>>))
       => (/\ messages' = messages
           /\ input' = input
           /\ isProcessing' = isProcessing
           /\ pending' = pending)]_vars

C2_Witness ==
    /\ event.type = "sendMessage"
    /\ event.isProcessing
    /\ Len(messages) = 2
    /\ Len(pending) = 1

\* C3: at most one request to the backend is in flight at any time.
C3_AtMostOneInFlight == Len(pending) <= 1

C3_Witness ==
    /\ Len(pending) = 1
    /\ Len(messages) = 4
    /\ event.type = "sendMessage"
    /\ event.isProcessing

\* C4: an accepted send appends, in one step with the issue of its request,
\* exactly a user message with displayText = text followed by a loading
\* placeholder (assistant, empty text, displayText and timestamp, isLoading),
\* clears the input field and sets isProcessing.
C4_AcceptedSendAppendsPair ==
    [][(/\ event'.type = "sendMessage"
        /\ mounted
        /\ ~isProcessing
        /\ Trim(input) # <<>>)
       => (/\ Len(messages') = Len(messages) + 2
           /\ SubSeq(messages', 1, Len(messages)) = messages
           /\ messages'[Len(messages) + 1].sender = "user"
           /\ messages'[Len(messages) + 1].displayText =
                  messages'[Len(messages) + 1].text
           /\ ~messages'[Len(messages) + 1].isLoading
           /\ messages'[Len(messages) + 2].sender = "ai"
           /\ messages'[Len(messages) + 2].text = <<>>
           /\ messages'[Len(messages) + 2].displayText = <<>>
           /\ messages'[Len(messages) + 2].timestamp = <<>>
           /\ messages'[Len(messages) + 2].isLoading
           /\ input' = <<>>
           /\ isProcessing' = TRUE
           /\ Len(pending') = Len(pending) + 1)]_vars

C4_Witness ==
    /\ event.type = "sendMessage"
    /\ ~event.isProcessing
    /\ Trim(event.input) # <<>>
    /\ Len(messages) = 2
    /\ messages[2].isLoading
    /\ isProcessing
    /\ input = <<>>

\* C5: a successful settlement replaces the placeholder in place: the length
\* and every other message are unchanged, and the message at the
\* placeholder's index, right after the user message of the request, has the
\* reply's response as text, is not loading, has a non-empty timestamp, is an
\* image exactly for the image persona, and starts with an empty displayText
\* for a text persona.
C5_SuccessReplacesInPlace ==
    [][(event'.type = "resolve" /\ mounted)
       => (/\ Len(messages') = Len(messages)
           /\ \E p \in DOMAIN messages :
                /\ messages[p].isLoading
                /\ \A j \in DOMAIN messages \ {p} : messages'[j] = messages[j]
                /\ p > 1
                /\ messages[p - 1].sender = "user"
                /\ messages[p - 1].text = event'.request.message
                /\ messages'[p].sender = "ai"
                /\ messages'[p].text = event'.response
                /\ ~messages'[p].isLoading
                /\ messages'[p].timestamp # <<>>
                /\ messages'[p].isImage = (influencerName = ImagePersona)
                /\ (influencerName # ImagePersona
                      => messages'[p].displayText = <<>>))]_vars

C5_Witness ==
    /\ event.type = "resolve"
    /\ mounted
    /\ event.response # <<>>
    /\ Len(messages) = 4
    /\ messages[4].text = event.response
    /\ messages[4].displayText = <<>>
    /\ influencerName # ImagePersona

\* C6: a failed settlement leaves no loading placeholder; the last message is
\* one appended assistant message with the fixed error text, fully revealed,
\* and before it stand the messages other than the placeholder, unchanged and
\* in order.
C6_FailureAppendsError ==
    [][(event'.type = "reject" /\ mounted)
       => (/\ messages' # <<>>
           /\ \A i \in DOMAIN messages' : ~messages'[i].isLoading
           /\ Last(messages').sender = "ai"
           /\ Last(messages').text = ErrorText
           /\ Last(messages').displayText = Last(messages').text
           /\ SubSeq(messages', 1, Len(messages') - 1) =
                  SelectSeq(messages, NotLoading))]_vars

C6_Witness ==
    /\ event.type = "reject"
    /\ event.cause = "status"
    /\ mounted
    /\ Len(messages) = 4
    /\ Last(messages).text = ErrorText
    /\ LoadingIndexes = {}

\* C7: whenever the request of an accepted send settles, by success or by
\* failure, isProcessing is false afterwards.
C7_SettleResetsProcessing ==
    [][(Settled(event') /\ mounted /\ isProcessing) => ~isProcessing']_vars

C7_Witness ==
    /\ event.type = "sendMessage"
    /\ ~event.isProcessing
    /\ isProcessing
    /\ Len(messages) = 4
    /\ messages[2].text = ErrorText

TextualReplyAt(i) ==
    /\ mounted
    /\ i \in DOMAIN messages
    /\ messages[i].sender = "ai"
    /\ ~messages[i].isLoading
    /\ ~messages[i].isImage

RevealedAt(i) ==
    i \in DOMAIN messages /\ messages[i].displayText = messages[i].text

\* C8: every textual assistant message in the list eventually has
\* displayText = text, unless the widget is unmounted.
C8_EveryReplyRevealed ==
    \A i \in 1..MaxMsgs :
        [](TextualReplyAt(i) => <>(~mounted \/ RevealedAt(i)))

\* C9: the displayText of every message is a prefix of its text, and the
\* length of the displayText at a position of the list never decreases.
C9_DisplayTextPrefix ==
    /\ [](\A i \in DOMAIN messages :
            IsPrefix(messages[i].displayText, messages[i].text))
    /\ [][\A i \in DOMAIN messages \cap DOMAIN messages' :
            Len(messages'[i].displayText) >= Len(messages[i].displayText)]_vars

C9_Witness ==
    /\ event.type = "timer"
    /\ mounted
    /\ messages # <<>>
    /\ Len(Last(messages).displayText) > 0
    /\ Len(Last(messages).displayText) < Len(Last(messages).text)

\* C10: no reveal timer is pending while the last message is an image or a
\* loading placeholder, and no firing of a timer changes the displayText of
\* an image or of a placeholder.
C10_NoRevealOfImageOrLoading ==
    /\ []((messages # <<>>
            /\ (Last(messages).isImage \/ Last(messages).isLoading))
          => timers = <<>>)
    /\ [][event'.type = "timer"
          => \A i \in DOMAIN messages :
               (messages[i].isImage \/ messages[i].isLoading)
               => messages'[i].displayText = messages[i].displayText]_vars

C10_Witness ==
    /\ mounted
    /\ event.type = "resolve"
    /\ messages # <<>>
    /\ Last(messages).isImage
    /\ Last(messages).text # <<>>
    /\ Last(messages).displayText = <<>>
    /\ timers = <<>>

AcceptedSend ==
    /\ event'.type = "sendMessage"
    /\ mounted
    /\ ~isProcessing
    /\ Trim(input) # <<>>

\* C11 (as claimed): every accepted send issues exactly one request, to the
\* endpoint of the widget's persona, whose payload message is the input with
\* leading and trailing whitespace trimmed.
C11_PayloadIsTrimmedInput ==
    [][AcceptedSend
       => (/\ Len(pending') = Len(pending) + 1
           /\ SubSeq(pending', 1, Len(pending)) = pending
           /\ Last(pending').persona = influencerName
           /\ Last(pending').message = Trim(input))]_vars

\* C11 (amended): every accepted send issues exactly one request, to the
\* endpoint of the widget's persona, whose payload message is the input as it
\* stands in the input field, surrounding whitespace included.
C11_PayloadIsInput ==
    [][AcceptedSend
       => (/\ Len(pending') = Len(pending) + 1
           /\ SubSeq(pending', 1, Len(pending)) = pending
           /\ Last(pending').persona = influencerName
           /\ Last(pending').message = input)]_vars

C11_Witness ==
    /\ event.type = "sendMessage"
    /\ ~event.isProcessing
    /\ Trim(event.input) # <<>>
    /\ Trim(event.input) # event.input
    /\ Len(pending) = 1
    /\ pending[1].message = event.input
    /\ pending[1].persona = influencerName

\* C12: Home calls router.push only in a step that leaves the wallet
\* connected with the landing route as current view, and calls it once in
\* such a step; no push happens while the wallet is not connected or while
\* the view is another route.
C12_PushOnlyOnLanding ==
    [][landing'.pushes # landing.pushes
       => (/\ landing'.connected
           /\ landing'.pathname = LandingPath
           /\ landing'.pushes = landing.pushes + 1)]_vars

RECURSIVE Concat(_)
Concat(parts) == IF parts = <<>> THEN <<>> ELSE Head(parts) \o Concat(Tail(parts))

Stars(s) == {i \in DOMAIN s : s[i] = Star}

SegmentContents(segments) ==
    Concat([i \in DOMAIN segments |-> segments[i].content])

\* each segment with the delimiters of its emphasis put back around it
SegmentSources(segments) ==
    Concat([i \in DOMAIN segments |->
              IF segments[i].tag = "strong"
              THEN <<Star, Star>> \o segments[i].content \o <<Star, Star>>
              ELSE IF segments[i].tag = "em"
              THEN <<Star>> \o segments[i].content \o <<Star>>
              ELSE segments[i].content])

\* C13: the segments rendered for a display text, with the delimiters of the
\* bold and italic spans put back, give back the display text, and a display
\* text with a single '*' is rendered with that '*' in it.
C13_UnterminatedDelimitersLiteral ==
    /\ SegmentSources(format.segments) = format.displayText
    /\ (Cardinality(Stars(format.displayText)) = 1
          => SegmentContents(format.segments) = format.displayText)

\* C14: a reveal timer scheduled for a message only ever extends that
\* message: every pending timer was scheduled for the message that is last
\* now, and a firing changes only the last message, which is the one the
\* timer was scheduled for, by giving it a prefix of its own text.
C14_TimerExtendsItsMessage ==
    /\ [](\A i \in DOMAIN timers :
            /\ mounted
            /\ messages # <<>>
            /\ timers[i].lastMessage = Last(messages))
    /\ [][event'.type = "timer"
          => (/\ Len(messages') = Len(messages)
              /\ \A j \in 1..(Len(messages) - 1) : messages'[j] = messages[j]
              /\ Last(messages) = event'.lastMessage
              /\ Last(messages').text = event'.lastMessage.text
              /\ IsPrefix(Last(messages').displayText,
                          event'.lastMessage.text))]_vars

\* a send came while a reply was under reveal: its timer is gone and the
\* reply, no longer last, was left as it was
C14_Witness ==
    /\ mounted
    /\ event.type = "sendMessage"
    /\ Len(messages) = 4
    /\ messages[2].sender = "ai"
    /\ Len(messages[2].displayText) = 1
    /\ Len(messages[2].text) > 1
    /\ messages[4].isLoading
    /\ messages[4].displayText = <<>>
    /\ timers = <<>>

\* C15: a reply with an ok status and a malformed body is handled as a
\* failure: the widget stays mounted, the placeholder is removed, the fixed
\* error message is the last message, isProcessing is false and no message
\* is without a text.
C15_MalformedReplyIsFailure ==
    [][(/\ event'.type = "resolve"
        /\ event'.response = Undefined
        /\ mounted)
       => (/\ mounted'
           /\ ~isProcessing'
           /\ messages' # <<>>
           /\ \A i \in DOMAIN messages' :
                ~messages'[i].isLoading /\ messages'[i].text # Undefined
           /\ Last(messages').text = ErrorText)]_vars

TextualLast ==
    /\ mounted
    /\ messages # <<>>
    /\ Last(messages).sender = "ai"
    /\ ~Last(messages).isLoading
    /\ ~Last(messages).isImage

\* C16: each firing of the reveal timer makes the displayText of the last
\* message one character longer and changes nothing else; while a textual
\* assistant message is last, one timer is pending as long as its displayText
\* is shorter than its text and none once they are equal, so that a reply
\* revealed from "" takes as many firings as its text has characters.
C16_OneCharacterPerTick ==
    /\ [](TextualLast
          => Len(timers) =
               (IF Len(Last(messages).displayText) < Len(Last(messages).text)
                THEN 1 ELSE 0))
    /\ [][event'.type = "timer"
          => (/\ Len(messages') = Len(messages)
              /\ \A j \in 1..(Len(messages) - 1) : messages'[j] = messages[j]
              /\ Len(Last(messages').displayText) =
                     Len(Last(messages).displayText) + 1
              /\ Last(messages') =
                     [Last(messages) EXCEPT
                        !.displayText = Last(messages').displayText]
              /\ IsPrefix(Last(messages').displayText, Last(messages).text)
              /\ UNCHANGED <<input, isProcessing, pending>>)]_vars

C16_Witness ==
    /\ TextualLast
    /\ event.type = "timer"
    /\ Len(messages) = 2
    /\ Last(messages).text = Slice(ReplyText, MaxReplyLen)
    /\ Last(messages).displayText = Last(messages).text
    /\ timers = <<>>

\* C17: while the widget is mounted, a loading placeholder is in the message
\* list if and only if isProcessing is true.
C17_LoadingIffProcessing ==
    mounted => ((LoadingIndexes # {}) <=> isProcessing)

C17_Witness ==
    /\ mounted
    /\ event.type = "reject"
    /\ Len(messages) = 2
    /\ ~isProcessing
    /\ LoadingIndexes = {}

\* C18: the message list is a sequence of (user message, assistant message)
\* pairs: its length is even, the first message of each pair is a user
\* message with displayText = text and the second an assistant message.
C18_UserAssistantPairs ==
    /\ Len(messages) % 2 = 0
    /\ \A i \in DOMAIN messages :
         IF i % 2 = 1
         THEN /\ messages[i].sender = "user"
              /\ messages[i].displayText = messages[i].text
              /\ ~messages[i].isLoading
         ELSE messages[i].sender = "ai"

C18_Witness ==
    /\ Len(messages) = 4
    /\ messages[2].text = ErrorText
    /\ messages[3].sender = "user"
    /\ messages[4].sender = "ai"
    /\ ~messages[4].isLoading
    /\ messages[4].text = Slice(ReplyText, MaxReplyLen)

\* C19: at most one reveal timer is pending at any time, and none once the
\* widget is unmounted.
C19_AtMostOneTimer ==
    /\ Len(timers) <= 1
    /\ (~mounted => timers = <<>>)

\* a firing has updated the list and the effect has scheduled the next timer
C19_Witness ==
    /\ mounted
    /\ event.type = "timer"
    /\ Len(messages) = 4
    /\ Len(timers) = 1
    /\ timers[1].lastMessage = Last(messages)

====
